---- MODULE Spec2Model ----
(***************************************************************************)
(* Model of the synthetic oncology data generator (Dataset/DataGen.py), of *)
(* the prevalence table (Dataset/Prevelance.py) and of the dashboard's     *)
(* filter of it (MainDashboard.py).                                        *)
(*                                                                         *)
(* Numbers.  Gene-expression values are rounded to two decimals by the     *)
(* code, so the model keeps them as integers counted in hundredths.  A     *)
(* draw of random.random() is an integer in 0..1000 (thousandths), so a    *)
(* value before rounding is counted in thousandths and a value times a     *)
(* stage multiplier (kept in tenths) in ten-thousandths.                   *)
(*                                                                         *)
(* Objects.  A gene-expression dictionary is an object: heap[r] is the     *)
(* dictionary with reference r, and a variable or a field that holds a     *)
(* dictionary holds its reference.                                         *)
(*                                                                         *)
(* Dates.  A datetime is its proleptic Gregorian ordinal                   *)
(* (datetime.toordinal(): 0001-01-01 is day 1), the time of day being      *)
(* midnight as random_date() produces it.  strftime("%Y-%m-%d") is the     *)
(* conversion of an ordinal to <<year, month, day>>.                       *)
(***************************************************************************)
EXTENDS Integers, Sequences, FiniteSets, TLC

\* None where a datetime is expected: no datetime has the ordinal 0.
None == 0

\* The reference held by a local that is not assigned yet.
Unassigned == 0

\* ------------------------------------------------------------------
\* Tables of the program
\* ------------------------------------------------------------------

DISEASE_GENE_BASE ==
    ("Breast Cancer"     :> [EGFR |-> <<5, 8>>,   KRAS |-> <<4, 7>>,  BRAF |-> <<5, 10>>, PIK3CA |-> <<6, 11>>]) @@
    ("Lung Cancer"       :> [EGFR |-> <<10, 15>>, KRAS |-> <<8, 14>>, BRAF |-> <<5, 9>>,  PIK3CA |-> <<7, 10>>]) @@
    ("Colorectal Cancer" :> [EGFR |-> <<4, 7>>,   KRAS |-> <<9, 14>>, BRAF |-> <<7, 12>>, PIK3CA |-> <<6, 9>>]) @@
    ("Prostate Cancer"   :> [EGFR |-> <<4, 6>>,   KRAS |-> <<5, 8>>,  BRAF |-> <<3, 6>>,  PIK3CA |-> <<5, 8>>]) @@
    ("Leukemia"          :> [EGFR |-> <<5, 8>>,   KRAS |-> <<5, 9>>,  BRAF |-> <<5, 9>>,  PIK3CA |-> <<4, 7>>]) @@
    ("Lymphoma"          :> [EGFR |-> <<6, 9>>,   KRAS |-> <<5, 8>>,  BRAF |-> <<6, 10>>, PIK3CA |-> <<5, 9>>])

\* Stage multipliers 1.0, 1.1, 1.2, 1.3, in tenths.
STAGE_MULTIPLIERS == (1 :> 10) @@ (2 :> 11) @@ (3 :> 12) @@ (4 :> 13)

GENE_LIST == <<"EGFR", "KRAS", "BRAF", "PIK3CA">>

\* The list generate_treatment_outcome() chooses from.
outcomes ==
    << "Complete Response", "Partial Response", "Stable Disease",
       "Progressive Disease", "Death", "Discontinued" >>

DRUGS_BY_STAGE ==
    (1 :> <<"Doxorubicin", "Cyclophosphamide", "Paclitaxel">>) @@
    (2 :> <<"Carboplatin", "Cisplatin", "Pembrolizumab">>) @@
    (3 :> <<"Trastuzumab", "Erlotinib", "Bevacizumab">>) @@
    (4 :> <<"Gemcitabine", "Vincristine", "Irinotecan">>)

\* The table with the label of stage 3 pasted over that of stage 4.
THERAPY_SEGMENT_BY_STAGE_Pasted ==
    (1 :> "First-line Therapy") @@ (2 :> "Second-line Therapy") @@
    (3 :> "Third-line Therapy") @@ (4 :> "Third-line Therapy")

THERAPY_SEGMENT_BY_STAGE ==
    (1 :> "First-line Therapy") @@ (2 :> "Second-line Therapy") @@
    (3 :> "Third-line Therapy") @@ (4 :> "Fourth-line Therapy")

\* ------------------------------------------------------------------
\* Bounds of the model
\* ------------------------------------------------------------------

\* num_cycles ranges over 1..MaxCycles.
MaxCycles == 4

\* A draw of random.random(), in thousandths.
UnitDraws == 0..1000

\* The draws tried when generate_initial_gene_expression is called directly.
UGrid == {0, 5, 500, 1000}

\* The states the random generator is tried in when a timeline starts: in
\* state 1 every draw is the lowest value, in state 2 the highest, in state 3
\* the draws vary.
Streams == {1, 2, 3}

\* The diseases tried for a direct call ("Melanoma" is not in
\* DISEASE_GENE_BASE), and those tried for a timeline.
AllDiseases == DOMAIN DISEASE_GENE_BASE \cup {"Melanoma"}
TimelineDiseases == {"Lung Cancer", "Prostate Cancer", "Melanoma"}

\* The stages tried for a direct call of generate_initial_gene_expression.
CallStages == 0..5

\* The start date: 2023-12-25, so that the cycles run into a leap year.
StartDates == {738879}

\* cycle_gap_days.
GapDays == {0, 21}

\* A supplied date_of_death is start_date plus one of these offsets.
DeathOffsets == {-1, 0, 30}

\* ------------------------------------------------------------------
\* The random module and the arithmetic of the program
\* ------------------------------------------------------------------

\* The i-th draw of random.random() of the generator started in state k, in
\* thousandths.
U(k, i) ==
    IF k = 1 THEN 0
    ELSE IF k = 2 THEN 1000
    ELSE IF k = 4 THEN (IF i % 2 = 0 THEN 0 ELSE 1000)
    ELSE (i * 691) % 1001

\* uniform() with its origin taken at the wrong end of the range.
uniform_FromB(a, b, u) == 1000 * b + (b - a) * u

\* random.uniform(a, b) = a + (b - a) * random(), in thousandths.
uniform(a, b, u) == 1000 * a + (b - a) * u

\* random.randint(a, b) from one draw of random().
randint(a, b, u) == a + (u * (b - a + 1)) \div 1001

\* sample() without the refill of the picked slot.
RECURSIVE sample_NoRefill(_, _, _)
sample_NoRefill(pool, k, us) ==
    IF k = 0 THEN << >>
    ELSE LET n == Len(pool)
             j == randint(0, n - 1, Head(us))
         IN  <<pool[j + 1]>> \o sample_NoRefill(SubSeq(pool, 1, n - 1), k - 1, Tail(us))

\* random.sample(population, k): k picks from a shrinking pool, the picked
\* slot being refilled with the pool's last element; us are the draws.
RECURSIVE sample(_, _, _)
sample(pool, k, us) ==
    IF k = 0 THEN << >>
    ELSE LET n == Len(pool)
             j == randint(0, n - 1, Head(us))
             rest == SubSeq([pool EXCEPT ![j + 1] = pool[n]], 1, n - 1)
         IN  <<pool[j + 1]>> \o sample(rest, k - 1, Tail(us))

\* round(x, 2) of a value x counted in ten-thousandths: the nearest
\* hundredth, a tie going to the even one.
round2(x) ==
    LET q == x \div 100
        r == x % 100
    IN  IF r < 50 THEN q
        ELSE IF r > 50 THEN q + 1
        ELSE IF q % 2 = 0 THEN q ELSE q + 1

\* round(x, 2) of a value x counted in units of which d make a hundredth:
\* the nearest hundredth, a tie going to the even one.
round_half_even(x, d) ==
    LET q == x \div d
        r == x % d
    IN  IF 2 * r < d THEN q
        ELSE IF 2 * r > d THEN q + 1
        ELSE IF q % 2 = 0 THEN q ELSE q + 1

min(a, b) == IF a <= b THEN a ELSE b

\* random.choice(seq): the entry at int(random() * len(seq)).
choice(seq, u) == seq[randint(0, Len(seq) - 1, u) + 1]

\* sep.join(xs): the string, written as the sequence of its pieces.
RECURSIVE join(_, _)
join(sep, xs) ==
    IF Len(xs) = 0 THEN << >>
    ELSE IF Len(xs) = 1 THEN << xs[1] >>
    ELSE << xs[1], sep >> \o join(sep, Tail(xs))

\* a < b of two strings "%Y-%m-%d", each written <<y, m, d>>.
str_lt(a, b) ==
    \/ a[1] < b[1]
    \/ a[1] = b[1] /\ a[2] < b[2]
    \/ a[1] = b[1] /\ a[2] = b[2] /\ a[3] < b[3]

\* sorted(xs) of a list of such strings.
RECURSIVE sorted(_)
sorted(xs) ==
    IF Len(xs) = 0 THEN << >>
    ELSE LET rest == sorted(Tail(xs))
             k    == Cardinality({i \in DOMAIN rest : ~str_lt(Head(xs), rest[i])})
         IN  SubSeq(rest, 1, k) \o << Head(xs) >> \o SubSeq(rest, k + 1, Len(rest))

\* The rows appended by nested loops: the lists of an outer list, one after
\* another.
RECURSIVE concat(_)
concat(ss) == IF Len(ss) = 0 THEN << >> ELSE Head(ss) \o concat(Tail(ss))

\* datetime.strftime("%Y-%m-%d") of the datetime with ordinal n.
strftime(n) ==
    LET z   == n + 305
        era == z \div 146097
        doe == z % 146097
        yoe == (doe - doe \div 1460 + doe \div 36524 - doe \div 146096) \div 365
        doy == doe - (365 * yoe + yoe \div 4 - yoe \div 100)
        mp  == (5 * doy + 2) \div 153
        d   == doy - (153 * mp + 2) \div 5 + 1
        m   == IF mp < 10 THEN mp + 3 ELSE mp - 9
        y   == yoe + era * 400 + (IF m <= 2 THEN 1 ELSE 0)
    IN  <<y, m, d>>

GeneIndex(gene_name) ==
    CHOOSE i \in 1..Len(GENE_LIST) : GENE_LIST[i] = gene_name

\* generate_initial_gene_expression(disease, stage); us[i] is the draw of
\* random() for the i-th gene.  The values are in hundredths.
generate_initial_gene_expression(disease_, stage, us) ==
    LET disease_bases ==
            IF disease_ \in DOMAIN DISEASE_GENE_BASE
            THEN DISEASE_GENE_BASE[disease_]
            ELSE DISEASE_GENE_BASE["Breast Cancer"]
        stage_multiplier ==
            IF stage \in DOMAIN STAGE_MULTIPLIERS THEN STAGE_MULTIPLIERS[stage] ELSE 10
    IN  [gene_name \in {GENE_LIST[i] : i \in 1..Len(GENE_LIST)} |->
            LET base_range ==
                    IF gene_name \in DOMAIN disease_bases
                    THEN disease_bases[gene_name] ELSE <<5, 10>>
                val == uniform(base_range[1], base_range[2], us[GeneIndex(gene_name)])
            IN  round2(val * stage_multiplier)]

\* update_gene_expression(old_expression, disease, stage, variation=2).
update_gene_expression(old_expression, disease_, stage, us) ==
    LET variation == 2
        stage_multiplier ==
            IF stage \in DOMAIN STAGE_MULTIPLIERS THEN STAGE_MULTIPLIERS[stage] ELSE 10
    IN  [gene_name \in DOMAIN old_expression |->
            LET old_val == old_expression[gene_name]
                drift   == uniform(-variation, variation, us[GeneIndex(gene_name)])
                new_val == (10 * old_val + drift) * stage_multiplier
            IN  round2(new_val)]

\* generate_cycle_drugs_for_stage(disease_stage); us[1] is the draw of
\* randint, the others those of sample.
generate_cycle_drugs_for_stage(stage, us) ==
    LET possible_drugs ==
            IF stage \in DOMAIN DRUGS_BY_STAGE THEN DRUGS_BY_STAGE[stage] ELSE << >>
    IN  IF possible_drugs = << >> THEN << >>
        ELSE LET num_drugs == randint(1, min(3, Len(possible_drugs)), us[1])
             IN  sample(possible_drugs, num_drugs, Tail(us))

\* ------------------------------------------------------------------
\* State
\* ------------------------------------------------------------------

VARIABLES
    pc,               \* where the running call is
    disease,          \* argument disease
    num_cycles,       \* argument num_cycles
    cycle_gap_days,   \* argument cycle_gap_days
    start_date_in,    \* argument start_date as the caller passed it
    date_of_death_in, \* argument date_of_death as the caller passed it
    start_date,       \* local start_date, advanced by the loop
    date_of_death,    \* local date_of_death, returned at the end
    disease_stage,    \* local disease_stage (argument stage of a direct call)
    gene_expression,  \* local gene_expression (result of a direct call): a reference
    heap,             \* the dictionaries created so far, by reference
    cycle_num,        \* loop variable
    cycles,           \* the list being built, returned at the end
    rng,              \* the state the random generator was started in
    rng_pos,          \* the number of draws of random() consumed so far
    drugs_used,       \* result of a direct call of generate_cycle_drugs_for_stage
    patients_data,    \* the list of patient dictionaries
    tables,           \* the five tables made from patients_data
    epi_call,         \* arguments of create_multi_cancer_prevalence_dataset
    df_epi,           \* the prevalence table it returns
    selection,        \* date_range, cancer_types, cancer_stages of filter_epi_data
    filtered,         \* filter_epi_data(df_epi, ...)
    refiltered        \* filter_epi_data(filtered, ...) with the same selection

vars == << pc, disease, num_cycles, cycle_gap_days, start_date_in, date_of_death_in,
           start_date, date_of_death, disease_stage, gene_expression, heap, cycle_num,
           cycles, rng, rng_pos, drugs_used, patients_data, tables,
           epi_call, df_epi, selection, filtered, refiltered >>

\* The variables of the prevalence table and its filter.
epi == << epi_call, df_epi, selection, filtered, refiltered >>

\* Their values while no prevalence table is asked for.
NoEpi ==
    /\ epi_call = << >>
    /\ df_epi = << >>
    /\ selection = << >>
    /\ filtered = << >>
    /\ refiltered = << >>

\* What the table functions and a direct call of
\* generate_cycle_drugs_for_stage produce.
outputs == << drugs_used, patients_data, tables >>

\* The tables before they are made.
NoTables == [rwe |-> << >>, tcga |-> << >>, ehr |-> << >>, registry |-> << >>,
             claims |-> << >>]

args == << disease, num_cycles, cycle_gap_days, start_date_in, date_of_death_in, rng >>

\* The next n draws of random().
Draws(n) == [i \in 1..n |-> U(rng, rng_pos + i)]

\* A call of generate_treatment_cycles about to run.
InitTimeline ==
    /\ pc = "start"
    /\ disease \in TimelineDiseases
    /\ num_cycles \in 1..MaxCycles
    /\ cycle_gap_days \in GapDays
    /\ start_date_in \in StartDates
    /\ date_of_death_in \in {None} \cup {start_date_in + o : o \in DeathOffsets}
    /\ start_date = start_date_in
    /\ date_of_death = date_of_death_in
    /\ disease_stage = 0
    /\ gene_expression = Unassigned
    /\ heap = << >>
    /\ cycle_num = 0
    /\ cycles = << >>
    /\ rng \in Streams
    /\ rng_pos = 0
    /\ drugs_used = << >>
    /\ patients_data = << >>
    /\ tables = NoTables
    /\ NoEpi

\* A call of generate_initial_gene_expression(disease, stage) about to run.
InitGeneCall ==
    /\ pc = "call"
    /\ disease \in AllDiseases
    /\ disease_stage \in CallStages
    /\ gene_expression = Unassigned
    /\ heap = << >>
    /\ num_cycles = 0
    /\ cycle_gap_days = 0
    /\ start_date_in = None
    /\ date_of_death_in = None
    /\ start_date = None
    /\ date_of_death = None
    /\ cycle_num = 0
    /\ cycles = << >>
    /\ rng = 0
    /\ rng_pos = 0
    /\ drugs_used = << >>
    /\ patients_data = << >>
    /\ tables = NoTables
    /\ NoEpi

\* A call of generate_cycle_drugs_for_stage(disease_stage) about to run.
InitDrugCall ==
    /\ pc = "call_drugs"
    /\ disease = "Melanoma"
    /\ disease_stage \in CallStages
    /\ gene_expression = Unassigned
    /\ heap = << >>
    /\ num_cycles = 0
    /\ cycle_gap_days = 0
    /\ start_date_in = None
    /\ date_of_death_in = None
    /\ start_date = None
    /\ date_of_death = None
    /\ cycle_num = 0
    /\ cycles = << >>
    /\ rng = 0
    /\ rng_pos = 0
    /\ drugs_used = << >>
    /\ patients_data = << >>
    /\ tables = NoTables
    /\ NoEpi

Init == InitTimeline \/ InitGeneCall \/ InitDrugCall

\* ------------------------------------------------------------------
\* generate_treatment_cycles
\* ------------------------------------------------------------------

\* The range written one value early, as range(1 - 1, num_cycles + 1).
FirstCycleNum_Zero == 1 - 1

\* Line 258: the first value of range(1, num_cycles + 1).
FirstCycleNum == 1

\* The range written with one value too many, and with one too few.
InRange_Long == cycle_num <= num_cycles + 1
InRange_Short == cycle_num < num_cycles

\* Line 258: the loop variable is still in range(1, num_cycles + 1).
InRange == cycle_num <= num_cycles

\* Line 255: the stages random.randint(1, 2) draws from.
StartStages == 1..2

\* Lines 253-256: the empty list, the starting stage, the first snapshot.
Begin ==
    /\ pc = "start"
    /\ \E s \in StartStages :
          /\ disease_stage' = s
          /\ heap' = Append(heap, generate_initial_gene_expression(disease, s, Draws(4)))
          /\ gene_expression' = Len(heap')
    /\ rng_pos' = rng_pos + 4
    /\ cycle_num' = FirstCycleNum
    /\ pc' = "loop"
    /\ UNCHANGED << args, epi, outputs, start_date, date_of_death, cycles >>

\* The test of line 260 left out.
HasDied_Never == FALSE

\* The test of line 260 written with > for >=.
HasDied_Strict == date_of_death # None /\ start_date > date_of_death

\* Line 260: the patient has died before this cycle starts.
HasDied == date_of_death # None /\ start_date >= date_of_death

\* Lines 260-261, then 297.
BreakOnDeathDate ==
    /\ pc = "loop"
    /\ InRange
    /\ HasDied
    /\ pc' = "done"
    /\ UNCHANGED << args, epi, outputs, start_date, date_of_death, disease_stage, gene_expression,
                    heap, cycle_num, cycles, rng_pos >>

\* Lines 265-273: the record of the cycle; the drugs take four draws.
CycleInfo(outcome) ==
    [ cycle_number      |-> cycle_num,
      cycle_date        |-> strftime(start_date),
      disease_stage     |-> disease_stage,
      therapy_segment   |-> THERAPY_SEGMENT_BY_STAGE[disease_stage],
      drugs_used        |-> generate_cycle_drugs_for_stage(disease_stage, Draws(4)),
      gene_expression   |-> gene_expression,
      treatment_outcome |-> outcome ]

\* The date left where it is.
AdvancedDate_Stuck == start_date

\* Line 277: the date of the next cycle.
AdvancedDate == start_date + cycle_gap_days

\* The update called with the stage of the cycle just emitted.
NextExpression_OldStage ==
    update_gene_expression(heap[gene_expression], disease, disease_stage,
                           [i \in 1..4 |-> Draws(8)[i + 4]])

\* Lines 280-281: the snapshot of the next cycle; the drifts take the four
\* draws after those of the drugs.
NextExpression ==
    LET next_stage == min(disease_stage + 1, 4)
    IN  update_gene_expression(heap[gene_expression], disease, next_stage,
                               [i \in 1..4 |-> Draws(8)[i + 4]])

\* The update written into the dictionary it was given.
StoreExpression_InPlace(new_expr) == [heap EXCEPT ![gene_expression] = new_expr]

\* Lines 88 and 94: update_gene_expression fills and returns a new
\* dictionary.
StoreExpression(new_expr) == Append(heap, new_expr)

\* The stage left where it is, and the stage incremented without the test
\* of line 284.
NextStage_Stuck == disease_stage
NextStage_NoCap == disease_stage + 1

\* Lines 284-285.
NextStage == IF disease_stage < 4 THEN disease_stage + 1 ELSE disease_stage

\* The break of line 290 left out, and the test of line 288 taking
\* "Discontinued" for a death too.
StopsOnDeath_Never(outcome) == FALSE
StopsOnDeath_AnyStop(outcome) == outcome \in {"Death", "Discontinued"}

\* Line 288.
StopsOnDeath(outcome) == outcome = "Death"

\* The break of line 295 left out.
StopsOnDiscontinued_Never(outcome) == FALSE

\* Line 293.
StopsOnDiscontinued(outcome) == outcome = "Discontinued"

\* Lines 263-295: one iteration of the loop that emits a cycle; the outcome
\* is the choice of generate_treatment_outcome().  The lookup of line 269
\* raises KeyError for a stage that is no key of the table.
RunCycle ==
    /\ pc = "loop"
    /\ InRange
    /\ ~HasDied
    /\ IF disease_stage \notin DOMAIN THERAPY_SEGMENT_BY_STAGE
       THEN /\ pc' = "raised"
            /\ UNCHANGED << start_date, date_of_death, disease_stage, gene_expression,
                            heap, cycle_num, cycles, rng_pos >>
       ELSE /\ \E o \in 1..Len(outcomes) :
                LET outcome == outcomes[o]
                IN  /\ cycles' = Append(cycles, CycleInfo(outcome))
                    /\ start_date' = AdvancedDate
                    /\ heap' = StoreExpression(NextExpression)
                    /\ gene_expression' = Len(heap')
                    /\ disease_stage' = NextStage
                    /\ IF StopsOnDeath(outcome)
                       THEN /\ date_of_death' = start_date'
                            /\ pc' = "done"
                            /\ UNCHANGED cycle_num
                       ELSE IF StopsOnDiscontinued(outcome)
                       THEN /\ pc' = "done"
                            /\ UNCHANGED << date_of_death, cycle_num >>
                       ELSE /\ pc' = "loop"
                            /\ cycle_num' = cycle_num + 1
                            /\ UNCHANGED date_of_death
            /\ rng_pos' = rng_pos + 8
    /\ UNCHANGED << args, epi, outputs >>

\* Lines 258 and 297: range(1, num_cycles + 1) is exhausted.
ReturnExhausted ==
    /\ pc = "loop"
    /\ ~InRange
    /\ pc' = "done"
    /\ UNCHANGED << args, epi, outputs, start_date, date_of_death, disease_stage, gene_expression,
                    heap, cycle_num, cycles, rng_pos >>

\* ------------------------------------------------------------------
\* generate_initial_gene_expression called on its own
\* ------------------------------------------------------------------

CallInitialGeneExpression ==
    /\ pc = "call"
    /\ \E us \in [1..4 -> UGrid] :
          heap' = Append(heap, generate_initial_gene_expression(disease, disease_stage, us))
    /\ gene_expression' = Len(heap')
    /\ pc' = "returned"
    /\ UNCHANGED << args, epi, outputs, start_date, date_of_death, disease_stage, cycle_num, cycles,
                    rng_pos >>

\* ------------------------------------------------------------------
\* generate_cycle_drugs_for_stage called on its own
\* ------------------------------------------------------------------

CallCycleDrugs ==
    /\ pc = "call_drugs"
    /\ \E us \in [1..4 -> UGrid] :
          drugs_used' = generate_cycle_drugs_for_stage(disease_stage, us)
    /\ pc' = "returned_drugs"
    /\ UNCHANGED << args, epi, start_date, date_of_death, disease_stage, gene_expression,
                    heap, cycle_num, cycles, rng_pos, patients_data, tables >>

\* ------------------------------------------------------------------
\* generate_patient_info and the tables
\* ------------------------------------------------------------------

\* Line 342 of generate_patient_info: actual_cycle_count.
number_of_cycles == Len(cycles)

\* f"PT{i:03d}" for i < 1000: the prefix and three digits.
patient_id(i) == << "PT", (i \div 100) % 10, (i \div 10) % 10, i % 10 >>

\* Lines 344-362.  The other fields of the dictionary (name, age, ...) are
\* drawn independently of the cycles and are copied to the EHR and
\* registry rows unchanged; they are left out.
patient_dict(i) ==
    [ patient_id       |-> patient_id(i),
      diagnosis        |-> disease,
      date_of_death    |-> date_of_death,
      number_of_cycles |-> number_of_cycles,
      cycles           |-> cycles ]

\* The dictionaries of the timeline of an earlier patient: "Lung Cancer"
\* from 2023-12-25 at stage 1, a gap of 21 days, the draws of generator
\* state 3, "Stable Disease" and then "Death".
EarlierExpressions ==
    LET first == generate_initial_gene_expression("Lung Cancer", 1, [i \in 1..4 |-> U(3, i)])
    IN  << first,
           update_gene_expression(first, "Lung Cancer", 2, [i \in 1..4 |-> U(3, 8 + i)]) >>

\* That patient, its dictionaries placed on the heap after the first base
\* ones.
EarlierPatient(n, base) ==
    [ patient_id       |-> patient_id(n),
      diagnosis        |-> "Lung Cancer",
      date_of_death    |-> 738879 + 21 + 21,
      number_of_cycles |-> 2,
      cycles           |->
        << [ cycle_number      |-> 1,
             cycle_date        |-> strftime(738879),
             disease_stage     |-> 1,
             therapy_segment   |-> THERAPY_SEGMENT_BY_STAGE[1],
             drugs_used        |-> generate_cycle_drugs_for_stage(1, [i \in 1..4 |-> U(3, 4 + i)]),
             gene_expression   |-> base + 1,
             treatment_outcome |-> "Stable Disease" ],
           [ cycle_number      |-> 2,
             cycle_date        |-> strftime(738879 + 21),
             disease_stage     |-> 2,
             therapy_segment   |-> THERAPY_SEGMENT_BY_STAGE[2],
             drugs_used        |-> generate_cycle_drugs_for_stage(2, [i \in 1..4 |-> U(3, 12 + i)]),
             gene_expression   |-> base + 2,
             treatment_outcome |-> "Death" ] >> ]

\* A patient whose timeline was cut before its first cycle by a death date
\* not after the start date: no cycles.
UntreatedPatient(i) ==
    [ patient_id       |-> patient_id(i),
      diagnosis        |-> "Prostate Cancer",
      date_of_death    |-> 738879,
      number_of_cycles |-> 0,
      cycles           |-> << >> ]

\* What patients_data holds before the patient being generated is appended.
EarlierPatients(base) == << EarlierPatient(1, base), UntreatedPatient(2) >>

\* The call of line 335: no death date, a gap of 21 days and at least 3
\* planned cycles.
CalledByPatientInfo ==
    /\ date_of_death_in = None
    /\ cycle_gap_days = 21
    /\ num_cycles >= 3

\* Lines 342-363: the patient whose timeline has returned is appended.
AppendPatient ==
    /\ pc = "done"
    /\ CalledByPatientInfo
    /\ LET earlier == EarlierPatients(Len(heap))
       IN  patients_data' = Append(earlier, patient_dict(Len(earlier) + 1))
    /\ heap' = heap \o EarlierExpressions
    /\ pc' = "patients"
    /\ UNCHANGED << args, epi, start_date, date_of_death, disease_stage, gene_expression,
                    cycle_num, cycles, rng_pos, drugs_used, tables >>

\* The loops visiting the first cycle of each patient only.
patient_cycles_FirstOnly(data) ==
    concat([p \in DOMAIN data |->
              [c \in DOMAIN data[p].cycles \cap {1} |-> << data[p], data[p].cycles[c] >>]])

\* The (patient, cycle) pairs in the order the nested loops visit them.
patient_cycles(data) ==
    concat([p \in DOMAIN data |->
              [c \in DOMAIN data[p].cycles |-> << data[p], data[p].cycles[c] >>]])

\* Lines 378-395.
create_rwe_table(data) ==
    LET row(patient, cycle, drug) ==
            heap[cycle.gene_expression] @@
            [ patient_id        |-> patient.patient_id,
              cycle_number      |-> cycle.cycle_number,
              cycle_date        |-> cycle.cycle_date,
              drug_name         |-> drug,
              disease_stage     |-> cycle.disease_stage,
              therapy_segment   |-> cycle.therapy_segment,
              treatment_outcome |-> cycle.treatment_outcome ]
        pcs == patient_cycles(data)
    IN  concat([r \in DOMAIN pcs |->
                  [d \in DOMAIN pcs[r][2].drugs_used |->
                      row(pcs[r][1], pcs[r][2], pcs[r][2].drugs_used[d])]])

\* Lines 401-412.
create_tcga_table(data) ==
    LET row_dict(patient, cycle) ==
            heap[cycle.gene_expression] @@
            [ patient_id   |-> patient.patient_id,
              cycle_number |-> cycle.cycle_number,
              cycle_date   |-> cycle.cycle_date ]
        pcs == patient_cycles(data)
    IN  [r \in DOMAIN pcs |-> row_dict(pcs[r][1], pcs[r][2])]

\* Lines 421-450.
create_ehr_table(data) ==
    LET row(patient, cycle) ==
            [ patient_id        |-> patient.patient_id,
              diagnosis         |-> patient.diagnosis,
              date_of_death     |-> patient.date_of_death,
              cycle_number      |-> cycle.cycle_number,
              cycle_date        |-> cycle.cycle_date,
              disease_stage     |-> cycle.disease_stage,
              therapy_segment   |-> cycle.therapy_segment,
              treatment_outcome |-> cycle.treatment_outcome,
              drugs_used        |-> join(", ", cycle.drugs_used) ]
        pcs == patient_cycles(data)
    IN  [r \in DOMAIN pcs |-> row(pcs[r][1], pcs[r][2])]

\* The final outcome taken from the first cycle.
final_outcome_First(patient) ==
    IF Len(patient.cycles) > 0
    THEN patient.cycles[1].treatment_outcome
    ELSE "No Treatment"

\* Lines 461-463.
final_outcome(patient) ==
    IF Len(patient.cycles) > 0
    THEN patient.cycles[Len(patient.cycles)].treatment_outcome
    ELSE "No Treatment"

\* Lines 457-494.
create_patient_registry_table(data) ==
    [p \in DOMAIN data |->
        LET patient == data[p]
            cycle_dates == [c \in DOMAIN patient.cycles |-> patient.cycles[c].cycle_date]
            cycle_dates_sorted == sorted(cycle_dates)
        IN  [ patient_id       |-> patient.patient_id,
              diagnosis        |-> patient.diagnosis,
              final_outcome    |-> final_outcome(patient),
              date_of_death    |-> patient.date_of_death,
              number_of_cycles |-> patient.number_of_cycles,
              first_cycle_date |-> IF Len(cycle_dates_sorted) > 0
                                   THEN cycle_dates_sorted[1] ELSE None,
              last_cycle_date  |-> IF Len(cycle_dates_sorted) > 0
                                   THEN cycle_dates_sorted[Len(cycle_dates_sorted)]
                                   ELSE None ]]

procedure_codes == << "CPT-1234", "CPT-5678", "CPT-9012", "CPT-3456" >>

\* Lines 502-534.  Each row takes four draws.  The costs are in hundredths;
\* the coverage fraction uniform(0.5, 0.9) = 0.5 + 0.4 * u / 1000 is
\* counted in 2500ths, (1250 + u) / 2500, which keeps the product small.
create_claims_table(data) ==
    LET pcs == patient_cycles(data)
    IN  [r \in DOMAIN pcs |->
            LET patient == pcs[r][1]
                cycle == pcs[r][2]
                us == [i \in 1..4 |-> U(rng, rng_pos + 4 * (r - 1) + i)]
                cost_of_treatment == round_half_even(uniform(500, 5000, us[2]), 10)
                cost_of_diagnostics == round_half_even(uniform(200, 2000, us[3]), 10)
                total_bill == cost_of_treatment + cost_of_diagnostics
                coverage_fraction == 1250 + us[4]
                paid_by_insurance == round_half_even(total_bill * coverage_fraction, 2500)
            IN  [ claim_id            |-> 1000 + (r - 1),
                  patient_id          |-> patient.patient_id,
                  date_of_service     |-> cycle.cycle_date,
                  drugs_administered  |-> join(", ", cycle.drugs_used),
                  procedure_code      |-> choice(procedure_codes, us[1]),
                  cost_of_treatment   |-> cost_of_treatment,
                  cost_of_diagnostics |-> cost_of_diagnostics,
                  total_bill          |-> total_bill,
                  paid_by_insurance   |-> paid_by_insurance,
                  paid_by_patient     |-> total_bill - paid_by_insurance ]]

\* Lines 550-554 of generate_all_tables.
CreateTables ==
    /\ pc = "patients"
    /\ tables' = [ rwe      |-> create_rwe_table(patients_data),
                   tcga     |-> create_tcga_table(patients_data),
                   ehr      |-> create_ehr_table(patients_data),
                   registry |-> create_patient_registry_table(patients_data),
                   claims   |-> create_claims_table(patients_data) ]
    /\ rng_pos' = rng_pos + 4 * Len(patient_cycles(patients_data))
    /\ pc' = "tables"
    /\ UNCHANGED << args, epi, start_date, date_of_death, disease_stage, gene_expression,
                    heap, cycle_num, cycles, drugs_used, patients_data >>

Next ==
    \/ Begin
    \/ BreakOnDeathDate
    \/ RunCycle
    \/ ReturnExhausted
    \/ CallInitialGeneExpression
    \/ CallCycleDrugs
    \/ AppendPatient
    \/ CreateTables

Spec == Init /\ [][Next]_vars

\* The steps of a call of generate_treatment_cycles.
TimelineNext ==
    \/ Begin
    \/ BreakOnDeathDate
    \/ RunCycle
    \/ ReturnExhausted

\* A call of generate_treatment_cycles on its own.  The program is
\* sequential and nothing blocks it: a call that can take a step takes it.
FairSpec == InitTimeline /\ [][TimelineNext]_vars /\ WF_vars(TimelineNext)

\* ------------------------------------------------------------------
\* Dataset/Prevelance.py: the prevalence table
\* ------------------------------------------------------------------

US_STATES ==
    << "AL", "AK", "AZ", "AR", "CA", "CO", "CT", "DE", "FL", "GA", "HI", "ID", "IL", "IN", "IA",
       "KS", "KY", "LA", "ME", "MD", "MA", "MI", "MN", "MS", "MO", "MT", "NE", "NV", "NH", "NJ",
       "NM", "NY", "NC", "ND", "OH", "OK", "OR", "PA", "RI", "SC", "SD", "TN", "TX", "UT", "VT",
       "VA", "WA", "WV", "WI", "WY" >>

\* The dictionary as the list of its items, in the order it is written.
US_REGIONS ==
    << << "Northeast", << "CT", "ME", "MA", "NH", "NJ", "NY", "PA", "RI", "VT" >> >>,
       << "Midwest",   << "IL", "IN", "IA", "KS", "MI", "MN", "MO", "NE", "ND", "OH", "SD", "WI" >> >>,
       << "South",     << "AL", "AR", "DE", "FL", "GA", "KY", "LA", "MD", "MS", "NC", "OK", "SC",
                          "TN", "TX", "VA", "WV" >> >>,
       << "West",      << "AK", "AZ", "CA", "CO", "HI", "ID", "MT", "NV", "NM", "OR", "UT", "WA",
                          "WY" >> >> >>

CANCER_TYPES ==
    << "Lung Cancer", "Breast Cancer", "Prostate Cancer", "Colorectal Cancer",
       "Leukemia", "Lymphoma" >>

\* x in xs, of a list.
in(x, xs) == \E i \in DOMAIN xs : xs[i] = x

\* assign_region(state_abbr): the first region that lists the state.
assign_region(state_abbr) ==
    LET hits == {r \in DOMAIN US_REGIONS : in(state_abbr, US_REGIONS[r][2])}
    IN  IF hits = {} THEN "Unknown"
        ELSE US_REGIONS[CHOOSE r \in hits : \A q \in hits : r <= q][1]

\* pd.to_datetime of a date written <<y, m, d>>: the Timestamp of its
\* midnight, as the ordinal of the day.
to_datetime(ymd) ==
    LET m   == ymd[2]
        y   == IF m <= 2 THEN ymd[1] - 1 ELSE ymd[1]
        era == y \div 400
        yoe == y % 400
        mp  == IF m > 2 THEN m - 3 ELSE m + 9
        doy == (153 * mp + 2) \div 5 + ymd[3] - 1
        doe == yoe * 365 + yoe \div 4 - yoe \div 100 + doy
    IN  era * 146097 + doe - 305

\* random.randint(a, b) from one draw, for a range so wide that the product
\* u * (b - a + 1) of randint would leave 32 bits: the same value, the
\* product split at 1001.
randint_wide(a, b, u) ==
    LET n == b - a + 1
    IN  a + u * (n \div 1001) + (u * (n % 1001)) \div 1001

\* The digits of a quotient: q and r are quotient and remainder found so
\* far, k the number of decimal places still to find.
RECURSIVE long_division(_, _, _, _)
long_division(q, r, d, k) ==
    IF k = 0 THEN << q, r >>
    ELSE long_division(10 * q + (10 * r) \div d, (10 * r) % d, d, k - 1)

\* round((count / population) * 100_000, 2), in hundredths: count * 10^7 /
\* population to the nearest integer, a tie going to the even one.
rate(count, population) ==
    LET qr == long_division(count \div population, count % population, population, 7)
        q  == qr[1]
        r  == qr[2]
    IN  IF 2 * r < population THEN q
        ELSE IF 2 * r > population THEN q + 1
        ELSE IF q % 2 = 0 THEN q ELSE q + 1

\* The base ranges whose fallback has a mortality minimum above the
\* incidence minimum.
base_ranges_HighFallback(cancer) ==
    IF cancer = "Lung Cancer" THEN [incidence |-> <<500, 6000>>, mort |-> <<200, 4500>>]
    ELSE IF cancer = "Breast Cancer" THEN [incidence |-> <<1000, 7000>>, mort |-> <<300, 3000>>]
    ELSE IF cancer = "Prostate Cancer" THEN [incidence |-> <<800, 5000>>, mort |-> <<200, 2000>>]
    ELSE IF cancer = "Colorectal Cancer" THEN [incidence |-> <<700, 4000>>, mort |-> <<200, 1500>>]
    ELSE IF cancer = "Leukemia" THEN [incidence |-> <<300, 2000>>, mort |-> <<100, 1000>>]
    ELSE IF cancer = "Lymphoma" THEN [incidence |-> <<300, 2200>>, mort |-> <<100, 800>>]
    ELSE [incidence |-> <<500, 5000>>, mort |-> <<600, 2000>>]

\* Lines 77-98: <<base_incidence_min, base_incidence_max>> and
\* <<base_mort_min, base_mort_max>> of a cancer type.
base_ranges(cancer) ==
    IF cancer = "Lung Cancer" THEN [incidence |-> <<500, 6000>>, mort |-> <<200, 4500>>]
    ELSE IF cancer = "Breast Cancer" THEN [incidence |-> <<1000, 7000>>, mort |-> <<300, 3000>>]
    ELSE IF cancer = "Prostate Cancer" THEN [incidence |-> <<800, 5000>>, mort |-> <<200, 2000>>]
    ELSE IF cancer = "Colorectal Cancer" THEN [incidence |-> <<700, 4000>>, mort |-> <<200, 1500>>]
    ELSE IF cancer = "Leukemia" THEN [incidence |-> <<300, 2000>>, mort |-> <<100, 1000>>]
    ELSE IF cancer = "Lymphoma" THEN [incidence |-> <<300, 2200>>, mort |-> <<100, 800>>]
    ELSE [incidence |-> <<500, 5000>>, mort |-> <<200, 2000>>]

\* Line 101.
incidence_count(cancer, u) ==
    randint(base_ranges(cancer).incidence[1], base_ranges(cancer).incidence[2], u)

\* Line 102: the largest value the mortality draw can take.
mortality_max(cancer, incidence) == min(incidence, base_ranges(cancer).mort[2])

\* random.randint(a, b) raises ValueError when b < a.
randint_raises(a, b) == b < a

\* Lines 101-128: the row of a year, a state and a cancer type, from the
\* population drawn for the state and four draws.
prevalence_row(year, state, population, cancer, us) ==
    LET incidence  == incidence_count(cancer, us[1])
        mortality  == randint(base_ranges(cancer).mort[1],
                              mortality_max(cancer, incidence), us[2])
        prevalence == randint(incidence, incidence * 5, us[3])
    IN  [ year             |-> to_datetime(<< year, 1, 1 >>),
          state            |-> state,
          region           |-> assign_region(state),
          cancer_type      |-> cancer,
          cancer_stage     |-> randint(1, 4, us[4]),
          population       |-> population,
          prevalence_count |-> prevalence,
          prevalence_rate  |-> rate(prevalence, population),
          incidence_count  |-> incidence,
          incidence_rate   |-> rate(incidence, population),
          mortality_count  |-> mortality,
          mortality_rate   |-> rate(mortality, population) ]

\* The keyword arguments of a call, with the defaults of lines 37-40 and
\* 61-64 for those left out.
start_year == IF "start_year" \in DOMAIN epi_call THEN epi_call.start_year ELSE 2018
end_year == IF "end_year" \in DOMAIN epi_call THEN epi_call.end_year ELSE 2025
states == IF "states" \in DOMAIN epi_call THEN epi_call.states ELSE US_STATES
cancer_types == IF "cancer_types" \in DOMAIN epi_call THEN epi_call.cancer_types ELSE CANCER_TYPES

\* range(start_year, end_year + 1).
years == [i \in 1..(end_year + 1 - start_year) |-> start_year + i - 1]

\* The draws consumed before the population of the y-th year's s-th state
\* is drawn: one for the population and four per cancer type, per state.
draws_before(y, s) == ((y - 1) * Len(states) + (s - 1)) * (1 + 4 * Len(cancer_types))

\* Line 73.
population(y, s) == randint_wide(200000, 40000000, U(rng, rng_pos + draws_before(y, s) + 1))

\* The four draws of the c-th cancer type of that state.
row_draws(y, s, c) ==
    [i \in 1..4 |-> U(rng, rng_pos + draws_before(y, s) + 1 + 4 * (c - 1) + i)]

\* Lines 66-131: all_rows, in the order the three loops append.
all_rows ==
    concat([y \in DOMAIN years |->
        concat([s \in DOMAIN states |->
            [c \in DOMAIN cancer_types |->
                prevalence_row(years[y], states[s], population(y, s),
                               cancer_types[c], row_draws(y, s, c))]])])

\* Some mortality draw of the call has an empty range.
mortality_raises ==
    \E y \in DOMAIN years : \E s \in DOMAIN states : \E c \in DOMAIN cancer_types :
        LET r == base_ranges(cancer_types[c])
        IN  randint_raises(r.mort[1],
                           mortality_max(cancer_types[c],
                                         incidence_count(cancer_types[c], row_draws(y, s, c)[1])))

\* The calls tried: a range of two years for two states, one of them in no
\* region; every state for a cancer type of the list and an unrecognised
\* one; an empty range of years; the default years.
EpiCalls ==
    { [start_year |-> 2020, end_year |-> 2021, states |-> << "CA", "PR" >>],
      [start_year |-> 2021, end_year |-> 2021, cancer_types |-> << "Lung Cancer", "Sarcoma" >>],
      [start_year |-> 2021, end_year |-> 2020, states |-> << "TX" >>,
       cancer_types |-> << "Leukemia" >>],
      [states |-> << "NY" >>, cancer_types |-> << "Lymphoma", "Sarcoma" >>] }

\* The generator states tried for the prevalence table: those of the
\* timelines and one whose draws are the lowest and the highest in turn.
EpiStreams == Streams \cup {4}

\* A call of create_multi_cancer_prevalence_dataset about to run.
InitEpi ==
    /\ pc = "call_epi"
    /\ epi_call \in EpiCalls
    /\ rng \in EpiStreams
    /\ rng_pos = 0
    /\ df_epi = << >>
    /\ selection = << >>
    /\ filtered = << >>
    /\ refiltered = << >>
    /\ disease = "Melanoma"
    /\ disease_stage = 0
    /\ gene_expression = Unassigned
    /\ heap = << >>
    /\ num_cycles = 0
    /\ cycle_gap_days = 0
    /\ start_date_in = None
    /\ date_of_death_in = None
    /\ start_date = None
    /\ date_of_death = None
    /\ cycle_num = 0
    /\ cycles = << >>
    /\ drugs_used = << >>
    /\ patients_data = << >>
    /\ tables = NoTables

\* The variables of the timeline generator and its tables.
generator == << disease, num_cycles, cycle_gap_days, start_date_in, date_of_death_in,
                start_date, date_of_death, disease_stage, gene_expression, heap,
                cycle_num, cycles, drugs_used, patients_data, tables >>

\* Lines 61-132.
CreatePrevalenceDataset ==
    /\ pc = "call_epi"
    /\ IF mortality_raises
       THEN pc' = "raised" /\ UNCHANGED << df_epi, rng_pos >>
       ELSE /\ df_epi' = all_rows
            /\ rng_pos' = rng_pos + draws_before(Len(years) + 1, 1)
            /\ pc' = "epi_made"
    /\ UNCHANGED << generator, rng, epi_call, selection, filtered, refiltered >>

\* ------------------------------------------------------------------
\* MainDashboard.py: filter_epi_data
\* ------------------------------------------------------------------

\* df[mask] of a boolean mask: the rows whose entry is True, in order.
RECURSIVE getitem(_, _)
getitem(df, mask) ==
    IF Len(df) = 0 THEN << >>
    ELSE (IF mask[1] THEN << df[1] >> ELSE << >>) \o getitem(Tail(df), Tail(mask))

\* The filter with the end of the range left out.
filter_epi_data_Exclusive(df, date_range, types, stages) ==
    LET mask == [i \in DOMAIN df |->
                    /\ df[i].year >= to_datetime(date_range[1])
                    /\ df[i].year < to_datetime(date_range[2])
                    /\ in(df[i].cancer_type, types)
                    /\ in(df[i].cancer_stage, stages)]
    IN  getitem(df, mask)

\* filter_epi_data(df, date_range, cancer_types, cancer_stages).
filter_epi_data(df, date_range, types, stages) ==
    LET mask == [i \in DOMAIN df |->
                    /\ df[i].year >= to_datetime(date_range[1])
                    /\ df[i].year <= to_datetime(date_range[2])
                    /\ in(df[i].cancer_type, types)
                    /\ in(df[i].cancer_stage, stages)]
    IN  getitem(df, mask)

\* The values of the date slider tried: both ends on a first of January,
\* one year alone, a start one day late and an end one day early, an end
\* before the start, and a range before most of the table.
DateRanges ==
    { << <<2020, 1, 1>>, <<2021, 1, 1>> >>,
      << <<2021, 1, 1>>, <<2021, 1, 1>> >>,
      << <<2020, 1, 2>>, <<2021, 12, 31>> >>,
      << <<2019, 6, 1>>, <<2020, 12, 31>> >>,
      << <<2021, 6, 1>>, <<2020, 6, 1>> >> }

\* The cancer types and the stages selected.
TypeSelections ==
    { << >>, << "Lung Cancer" >>, << "Sarcoma", "Leukemia", "Lymphoma" >>, CANCER_TYPES }

StageSelections == { << >>, << 3 >>, << 4, 1 >>, << 1, 2, 3, 4 >> }

\* A call filter_epi_data(df_epi, ...), as prevelance_tab makes it.
FilterEpiData ==
    /\ pc = "epi_made"
    /\ \E date_range \in DateRanges, types \in TypeSelections, stages \in StageSelections :
          /\ selection' = [date_range |-> date_range, cancer_types |-> types,
                           cancer_stages |-> stages]
          /\ filtered' = filter_epi_data(df_epi, date_range, types, stages)
    /\ pc' = "epi_filtered"
    /\ UNCHANGED << generator, rng, rng_pos, epi_call, df_epi, refiltered >>

\* The filter applied to its own result with the same selection.
FilterAgain ==
    /\ pc = "epi_filtered"
    /\ refiltered' = filter_epi_data(filtered, selection.date_range,
                                     selection.cancer_types, selection.cancer_stages)
    /\ pc' = "epi_refiltered"
    /\ UNCHANGED << generator, rng, rng_pos, epi_call, df_epi, selection, filtered >>

EpiNext ==
    \/ CreatePrevalenceDataset
    \/ FilterEpiData
    \/ FilterAgain

\* The prevalence table and the dashboard's filter on their own.
EpiSpec == InitEpi /\ [][EpiNext]_vars

\* ------------------------------------------------------------------
\* Properties
\* ------------------------------------------------------------------

\* generate_treatment_cycles has returned (cycles, date_of_death).
Returned == pc = "done"

\* The dictionary a cycle's gene_expression field refers to.
Snapshot(cycle) == heap[cycle.gene_expression]

Terminal(outcome) == outcome \in {"Death", "Discontinued"}

\* The ordinal of the date written <<y, m, d>>: the parse of a cycle_date.
ordinal_of(ymd) ==
    LET m   == ymd[2]
        y   == IF m <= 2 THEN ymd[1] - 1 ELSE ymd[1]
        era == y \div 400
        yoe == y % 400
        mp  == IF m > 2 THEN m - 3 ELSE m + 9
        doy == (153 * mp + 2) \div 5 + ymd[3] - 1
        doe == yoe * 365 + yoe \div 4 - yoe \div 100 + doy
    IN  era * 146097 + doe - 305

\* Dates written <<y, m, d>> compare as their "%Y-%m-%d" strings do.
DateLess(a, b) ==
    \/ a[1] < b[1]
    \/ a[1] = b[1] /\ a[2] < b[2]
    \/ a[1] = b[1] /\ a[2] = b[2] /\ a[3] < b[3]

\* C1: in a returned timeline a cycle whose outcome is "Death" is the last
\* cycle, and the returned death date is that cycle's date plus
\* cycle_gap_days.
C1_DeathIsLast ==
    Returned =>
        \A i \in DOMAIN cycles :
            cycles[i].treatment_outcome = "Death" =>
                /\ i = Len(cycles)
                /\ date_of_death # None
                /\ date_of_death = ordinal_of(cycles[i].cycle_date) + cycle_gap_days

\* Death on cycle 2 of a 4-cycle request, 21 days apart.
C1_Witness ==
    /\ Returned
    /\ num_cycles = 4
    /\ cycle_gap_days = 21
    /\ Len(cycles) = 2
    /\ cycles[2].treatment_outcome = "Death"

\* C2: in a returned timeline a cycle whose outcome is "Discontinued" is the
\* last cycle, and the returned death date is the one passed in (None when
\* none was passed).
C2_DiscontinuedIsLast ==
    Returned =>
        \A i \in DOMAIN cycles :
            cycles[i].treatment_outcome = "Discontinued" =>
                /\ i = Len(cycles)
                /\ date_of_death = date_of_death_in

\* Discontinued on cycle 2 of a longer request with a death date passed in.
C2_Witness ==
    /\ Returned
    /\ date_of_death_in # None
    /\ num_cycles > 2
    /\ Len(cycles) = 2
    /\ cycles[2].treatment_outcome = "Discontinued"

\* A supplied death date is reached by the date of one of the num_cycles
\* requested cycles.
DeathDateReached ==
    /\ date_of_death_in # None
    /\ \E k \in 1..num_cycles :
          start_date_in + (k - 1) * cycle_gap_days >= date_of_death_in

\* C3 as stated: len(cycles) <= num_cycles, and len(cycles) = num_cycles
\* exactly when no cycle has outcome "Death" or "Discontinued" and no
\* supplied death date is reached by a cycle date.
C3_Original ==
    Returned =>
        /\ Len(cycles) <= num_cycles
        /\ (Len(cycles) = num_cycles) <=>
              /\ \A i \in DOMAIN cycles : ~Terminal(cycles[i].treatment_outcome)
              /\ ~DeathDateReached

\* C3 as amended: len(cycles) <= num_cycles, and len(cycles) = num_cycles
\* exactly when no cycle before the num_cycles-th has outcome "Death" or
\* "Discontinued" and no supplied death date is reached by a cycle date.
C3_LengthBound ==
    Returned =>
        /\ Len(cycles) <= num_cycles
        /\ (Len(cycles) = num_cycles) <=>
              /\ \A i \in DOMAIN cycles :
                    i < num_cycles => ~Terminal(cycles[i].treatment_outcome)
              /\ ~DeathDateReached

\* A full-length timeline whose last cycle ends in "Death".
C3_Witness ==
    /\ Returned
    /\ num_cycles >= 2
    /\ Len(cycles) = num_cycles
    /\ cycles[num_cycles].treatment_outcome = "Death"

\* C4: the cycle_number fields are 1, 2, ..., len(cycles) in list order.
C4_CycleNumbers ==
    \A i \in DOMAIN cycles : cycles[i].cycle_number = i

\* A returned timeline of three cycles cut short by a death date passed in.
C4_Witness ==
    /\ Returned
    /\ date_of_death_in # None
    /\ num_cycles = 4
    /\ Len(cycles) = 3

\* C5: the first cycle's stage is 1 or 2, every stage is in 1..4, and the
\* stage of cycle k+1 is min(stage of cycle k + 1, 4).
C5_Stages ==
    /\ cycles # << >> => cycles[1].disease_stage \in {1, 2}
    /\ \A i \in DOMAIN cycles : cycles[i].disease_stage \in 1..4
    /\ \A i \in DOMAIN cycles :
          i < Len(cycles) =>
              cycles[i + 1].disease_stage = min(cycles[i].disease_stage + 1, 4)

\* Stages 2, 3, 4, 4: the cap at 4 takes effect on an emitted cycle.
C5_Witness ==
    /\ Returned
    /\ Len(cycles) = 4
    /\ cycles[1].disease_stage = 2
    /\ cycles[3].disease_stage = 4
    /\ cycles[4].disease_stage = 4

\* C6: when a death date is passed in, every emitted cycle is dated strictly
\* before it, and no cycle is emitted when it is earlier than start_date.
C6_NoCycleFromDeathDate ==
    date_of_death_in # None =>
        /\ \A i \in DOMAIN cycles :
              DateLess(cycles[i].cycle_date, strftime(date_of_death_in))
        /\ date_of_death_in < start_date_in => cycles = << >>

\* Two cycles emitted, the third not: its date is past the death date.
C6_Witness ==
    /\ Returned
    /\ date_of_death_in = start_date_in + 30
    /\ cycle_gap_days = 21
    /\ num_cycles > 2
    /\ Len(cycles) = 2
    /\ ~Terminal(cycles[2].treatment_outcome)

\* C7: the first cycle is dated start_date and each later cycle
\* cycle_gap_days after the one before: cycle k is dated
\* start_date + (k-1) * cycle_gap_days.
C7_CycleDates ==
    /\ cycles # << >> => cycles[1].cycle_date = strftime(start_date_in)
    /\ \A i \in DOMAIN cycles :
          /\ cycles[i].cycle_date = strftime(start_date_in + (i - 1) * cycle_gap_days)
          /\ i < Len(cycles) =>
                ordinal_of(cycles[i + 1].cycle_date)
                    = ordinal_of(cycles[i].cycle_date) + cycle_gap_days

\* Four cycles from 2023-12-25, 21 days apart: the dates cross into 2024
\* and past the end of February of a leap year.
C7_Witness ==
    /\ Returned
    /\ Len(cycles) = 4
    /\ cycles[1].cycle_date = <<2023, 12, 25>>
    /\ cycles[2].cycle_date = <<2024, 1, 15>>
    /\ cycles[4].cycle_date = <<2024, 2, 26>>

\* C8: with no death date passed in (as generate_patient_info calls it) the
\* result holds at least one cycle and at most num_cycles cycles.
C8_AtLeastOneCycle ==
    (Returned /\ date_of_death_in = None) =>
        /\ number_of_cycles >= 1
        /\ number_of_cycles <= num_cycles

\* A patient's call (no death date, 21 days, 3 planned cycles) that ends on
\* its first cycle.
C8_Witness ==
    /\ Returned
    /\ date_of_death_in = None
    /\ cycle_gap_days = 21
    /\ num_cycles = 3
    /\ number_of_cycles = 1

\* C9: every gene-expression value recorded in a cycle is non-negative.
C9_NonNegative ==
    \A i \in DOMAIN cycles :
        \A g \in DOMAIN Snapshot(cycles[i]) :
            Snapshot(cycles[i])[g] >= 0

\* The baseline range and the multiplier (in tenths) the program documents
\* for a disease, a gene and a stage, with their defaults.
BaseRange(d, g) ==
    IF d \in DOMAIN DISEASE_GENE_BASE THEN DISEASE_GENE_BASE[d][g]
    ELSE DISEASE_GENE_BASE["Breast Cancer"][g]

Multiplier(st) == IF st \in 1..4 THEN STAGE_MULTIPLIERS[st] ELSE 10

\* The snapshot e (in hundredths) holds the four genes, each within
\* [min_range * multiplier, max_range * multiplier].
InBaseRange(e, d, st) ==
    /\ DOMAIN e = {"EGFR", "KRAS", "BRAF", "PIK3CA"}
    /\ \A g \in DOMAIN e :
          /\ e[g] >= BaseRange(d, g)[1] * Multiplier(st) * 10
          /\ e[g] <= BaseRange(d, g)[2] * Multiplier(st) * 10

\* C10: generate_initial_gene_expression returns a value for each of the
\* four genes, each within [min_range * stage_multiplier,
\* max_range * stage_multiplier]; this is the snapshot of cycle 1.
C10_InitialRange ==
    /\ pc = "returned" => InBaseRange(heap[gene_expression], disease, disease_stage)
    /\ cycles # << >> =>
          InBaseRange(Snapshot(cycles[1]), disease, cycles[1].disease_stage)

\* A stage-3 call whose EGFR value is the top of the Lung Cancer range,
\* 15 * 1.2.
C10_Witness ==
    /\ pc = "returned"
    /\ disease = "Lung Cancer"
    /\ disease_stage = 3
    /\ heap[gene_expression]["EGFR"] = 1800
    /\ heap[gene_expression]["KRAS"] = 960

\* C11: generate_treatment_cycles terminates: the loop runs at most
\* num_cycles iterations (each emitted cycle is one, and takes its eight
\* draws) and the call then returns.
C11_Terminates ==
    /\ [](pc \in {"loop", "done"} =>
            /\ cycle_num <= num_cycles + 1
            /\ Len(cycles) <= num_cycles
            /\ rng_pos = 4 + 8 * Len(cycles))
    /\ (pc = "start") ~> (pc = "done")

\* A call that ran all four iterations of a 4-cycle request and returned.
C11_Witness ==
    /\ Returned
    /\ num_cycles = 4
    /\ Len(cycles) = 4
    /\ cycle_num = 5

\* C12: generate_treatment_cycles never raises: the stage that indexes the
\* therapy-line table is one of its keys 1..4, and a disease that is not in
\* DISEASE_GENE_BASE gets the Breast Cancer ranges.
C12_NeverRaises ==
    /\ pc # "raised"
    /\ pc = "loop" => disease_stage \in DOMAIN THERAPY_SEGMENT_BY_STAGE
    /\ (disease \notin DOMAIN DISEASE_GENE_BASE /\ cycles # << >>) =>
          InBaseRange(Snapshot(cycles[1]), "Breast Cancer",
                      cycles[1].disease_stage)

\* Four cycles of an unknown disease, the stage capped at 4 before the
\* fourth lookup.
C12_Witness ==
    /\ Returned
    /\ disease = "Melanoma"
    /\ Len(cycles) = 4
    /\ cycles[1].disease_stage = 2
    /\ cycles[4].therapy_segment = "Fourth-line Therapy"

\* C14: a cycle's therapy_segment is the lookup of its disease_stage, and two
\* cycles have the same therapy_segment exactly when they have the same
\* disease_stage.
C14_TherapySegment ==
    /\ \A i \in DOMAIN cycles :
          cycles[i].therapy_segment \in
              { "First-line Therapy", "Second-line Therapy",
                "Third-line Therapy", "Fourth-line Therapy" }
    /\ \A i \in DOMAIN cycles :
          cycles[i].therapy_segment = "First-line Therapy"
              <=> cycles[i].disease_stage = 1
    /\ \A i, j \in DOMAIN cycles :
          cycles[i].therapy_segment = cycles[j].therapy_segment
              <=> cycles[i].disease_stage = cycles[j].disease_stage

\* Stages 2, 3, 4, 4: two cycles share a segment, the others differ.
C14_Witness ==
    /\ Returned
    /\ Len(cycles) = 4
    /\ cycles[2].therapy_segment = "Third-line Therapy"
    /\ cycles[3].therapy_segment = "Fourth-line Therapy"
    /\ cycles[4].therapy_segment = "Fourth-line Therapy"

HasDeathCycle == \E i \in DOMAIN cycles : cycles[i].treatment_outcome = "Death"

\* C17: the returned death date differs from the one passed in only if an
\* emitted cycle has outcome "Death"; when none is passed in, it is None
\* exactly when no emitted cycle has outcome "Death", that is, exactly when
\* the last cycle's outcome is not "Death".
C17_DeathDateOnlyFromDeath ==
    Returned =>
        /\ date_of_death # date_of_death_in => HasDeathCycle
        /\ date_of_death_in = None =>
              /\ (date_of_death = None) <=> ~HasDeathCycle
              /\ (date_of_death # None) <=>
                    (cycles # << >> /\ cycles[Len(cycles)].treatment_outcome = "Death")

\* A call with no death date that ends on "Discontinued": the returned death
\* date is still None.
C17_Witness ==
    /\ Returned
    /\ date_of_death_in = None
    /\ date_of_death = None
    /\ Len(cycles) = 2
    /\ cycles[2].treatment_outcome = "Discontinued"

\* C18: when the returned death date is not None, every emitted cycle is
\* dated on or before it, and strictly before it when cycle_gap_days > 0.
C18_CyclesBeforeDeath ==
    (Returned /\ date_of_death # None) =>
        \A i \in DOMAIN cycles :
            /\ ~DateLess(strftime(date_of_death), cycles[i].cycle_date)
            /\ cycle_gap_days > 0 =>
                  DateLess(cycles[i].cycle_date, strftime(date_of_death))

\* A death date passed in and then replaced by a "Death" outcome on cycle 2.
C18_Witness ==
    /\ Returned
    /\ date_of_death_in = start_date_in + 30
    /\ cycle_gap_days = 21
    /\ Len(cycles) = 2
    /\ cycles[2].treatment_outcome = "Death"
    /\ date_of_death = start_date_in + 42

\* C15: an emitted cycle is never changed and its snapshot is never shared:
\* no two cycles hold the same dictionary, the local gene_expression is not
\* the dictionary of an emitted cycle once it is updated, and a step leaves
\* every field of every emitted cycle, and the dictionary it refers to, as
\* they were.
C15_CyclesImmutable ==
    /\ [](\A i, j \in DOMAIN cycles :
            i # j => cycles[i].gene_expression # cycles[j].gene_expression)
    /\ [](\A i \in DOMAIN cycles : gene_expression # cycles[i].gene_expression)
    /\ [][\A i \in DOMAIN cycles :
            /\ i \in DOMAIN cycles'
            /\ cycles'[i] = cycles[i]
            /\ heap'[cycles'[i].gene_expression] = heap[cycles[i].gene_expression]]_vars

\* Four cycles, each with its own dictionary, and the one made for a fifth.
C15_Witness ==
    /\ Returned
    /\ Len(cycles) = 4
    /\ Len(heap) = 5
    /\ Snapshot(cycles[1]) # Snapshot(cycles[2])

\* C16: from a cycle to the next, each gene's value v becomes
\* round((v + drift) * m, 2) for a drift in [-2, +2], m being the multiplier
\* of the stage recorded on the next cycle; round being monotonic, these are
\* the values from round((v - 2) * m, 2) to round((v + 2) * m, 2).
C16_DriftThenMultiply ==
    Returned => \A i \in DOMAIN cycles :
        i < Len(cycles) =>
            LET m == STAGE_MULTIPLIERS[cycles[i + 1].disease_stage]
            IN  /\ cycles[i + 1].disease_stage = min(cycles[i].disease_stage + 1, 4)
                /\ \A g \in DOMAIN Snapshot(cycles[i]) :
                      LET v == Snapshot(cycles[i])[g]
                          w == Snapshot(cycles[i + 1])[g]
                      IN  /\ w >= round2((10 * v - 2000) * m)
                          /\ w <= round2((10 * v + 2000) * m)

\* Lung Cancer from stage 1 with the lowest draws: EGFR 10.0 on cycle 1 and
\* (10.0 - 2) * 1.1 = 8.8 on cycle 2, below the stage-2 baseline of 11.0.
C16_Witness ==
    /\ Returned
    /\ disease = "Lung Cancer"
    /\ Len(cycles) >= 2
    /\ cycles[1].disease_stage = 1
    /\ Snapshot(cycles[1])["EGFR"] = 1000
    /\ Snapshot(cycles[2])["EGFR"] = 880

\* The list ds is drawn from the catalog of stage st without a repeat and
\* has between 1 and min(3, catalog size) entries.
DrawnFromCatalog(ds, st) ==
    LET catalog == DRUGS_BY_STAGE[st]
    IN  /\ \A a \in DOMAIN ds : \E b \in DOMAIN catalog : ds[a] = catalog[b]
        /\ \A a, b \in DOMAIN ds : a # b => ds[a] # ds[b]
        /\ Len(ds) >= 1
        /\ Len(ds) <= min(3, Len(catalog))

\* C13: every cycle's drugs_used is drawn from the catalog of the cycle's own
\* stage, holds no drug twice and has between 1 and min(3, catalog size)
\* entries; so does the result of generate_cycle_drugs_for_stage for each of
\* the stages 1..4.
C13_DrugsFromCatalog ==
    /\ Returned =>
          \A i \in DOMAIN cycles :
             DrawnFromCatalog(cycles[i].drugs_used, cycles[i].disease_stage)
    /\ (pc = "returned_drugs" /\ disease_stage \in 1..4) =>
          DrawnFromCatalog(drugs_used, disease_stage)

\* Two of the three stage-3 drugs, the last of the catalog first.
C13_Witness ==
    /\ pc = "returned_drugs"
    /\ disease_stage = 3
    /\ drugs_used = <<"Bevacizumab", "Trastuzumab">>

TablesMade == pc = "tables"

\* C19: the registry has one row per patient, in patient order; a row's
\* final_outcome is the outcome of the patient's last cycle, and is
\* "No Treatment" only for a patient without cycles; first_cycle_date and
\* last_cycle_date are the dates of the patient's first and last cycles.
C19_Registry ==
    TablesMade =>
        /\ Len(tables.registry) = Len(patients_data)
        /\ \A p \in DOMAIN patients_data :
              LET row == tables.registry[p]
                  timeline == patients_data[p].cycles
                  last == Len(timeline)
              IN  /\ row.patient_id = patients_data[p].patient_id
                  /\ row.final_outcome = "No Treatment" => last = 0
                  /\ last > 0 =>
                        /\ row.final_outcome = timeline[last].treatment_outcome
                        /\ row.first_cycle_date = timeline[1].cycle_date
                        /\ row.last_cycle_date = timeline[last].cycle_date

\* Three patients: the second without cycles, the third treated from
\* 2023-12-25 into 2024 and discontinued after a response.
C19_Witness ==
    /\ TablesMade
    /\ Len(tables.registry) = 3
    /\ tables.registry[1].final_outcome = "Death"
    /\ tables.registry[2].final_outcome = "No Treatment"
    /\ tables.registry[3].final_outcome = "Discontinued"
    /\ patients_data[3].cycles[1].treatment_outcome = "Partial Response"
    /\ tables.registry[3].first_cycle_date = <<2023, 12, 25>>
    /\ tables.registry[3].last_cycle_date[1] = 2024

\* The number of cycles of the patients before patient p.
RECURSIVE CyclesBefore(_, _)
CyclesBefore(data, p) ==
    IF p = 1 THEN 0 ELSE CyclesBefore(data, p - 1) + Len(data[p - 1].cycles)

TotalCycles(data) == CyclesBefore(data, Len(data) + 1)

\* The number of drugs of the first n cycles of a timeline, and of all the
\* cycles of the first n patients.
RECURSIVE DrugsOfCycles(_, _)
DrugsOfCycles(timeline, n) ==
    IF n = 0 THEN 0
    ELSE DrugsOfCycles(timeline, n - 1) + Len(timeline[n].drugs_used)

RECURSIVE DrugsOfPatients(_, _)
DrugsOfPatients(data, n) ==
    IF n = 0 THEN 0
    ELSE DrugsOfPatients(data, n - 1)
            + DrugsOfCycles(data[n].cycles, Len(data[n].cycles))

\* The table has one row per (patient, cycle), in order, each as carries
\* says.
OneRowPerCycle(table, carries(_, _, _)) ==
    /\ Len(table) = TotalCycles(patients_data)
    /\ \A p \in DOMAIN patients_data : \A c \in DOMAIN patients_data[p].cycles :
          carries(table[CyclesBefore(patients_data, p) + c],
                  patients_data[p], patients_data[p].cycles[c])

\* The table has one row per (patient, cycle, drug of the cycle), in order,
\* each as carries says.
OneRowPerDrug(table, carries(_, _, _)) ==
    /\ Len(table) = DrugsOfPatients(patients_data, Len(patients_data))
    /\ \A p \in DOMAIN patients_data : \A c \in DOMAIN patients_data[p].cycles :
          LET cycle == patients_data[p].cycles[c]
              before == DrugsOfPatients(patients_data, p - 1)
                          + DrugsOfCycles(patients_data[p].cycles, c - 1)
          IN  \A d \in DOMAIN cycle.drugs_used :
                 /\ table[before + d].drug_name = cycle.drugs_used[d]
                 /\ carries(table[before + d], patients_data[p], cycle)

Has(row, key, value) == key \in DOMAIN row /\ row[key] = value

\* The row is of the patient and has the cycle's number and date.
CarriesCycle(row, patient, cycle) ==
    /\ Has(row, "patient_id", patient.patient_id)
    /\ Has(row, "cycle_number", cycle.cycle_number)
    /\ Has(row, "cycle_date", cycle.cycle_date)

CarriesGenes(row, patient, cycle) ==
    /\ CarriesCycle(row, patient, cycle)
    /\ \A g \in DOMAIN Snapshot(cycle) : Has(row, g, Snapshot(cycle)[g])

CarriesStage(row, patient, cycle) ==
    /\ CarriesCycle(row, patient, cycle)
    /\ Has(row, "disease_stage", cycle.disease_stage)
    /\ Has(row, "treatment_outcome", cycle.treatment_outcome)

CarriesAll(row, patient, cycle) ==
    /\ CarriesGenes(row, patient, cycle)
    /\ CarriesStage(row, patient, cycle)

\* The row of the claims table: the date is under date_of_service, and
\* there is no cycle number.
CarriesService(row, patient, cycle) ==
    /\ Has(row, "patient_id", patient.patient_id)
    /\ Has(row, "date_of_service", cycle.cycle_date)
    /\ Has(row, "drugs_administered", join(", ", cycle.drugs_used))
    /\ "cycle_number" \notin DOMAIN row
    /\ "cycle_date" \notin DOMAIN row

\* C20 as stated: the TCGA, EHR and claims tables have one row per
\* (patient, cycle) and the RWE table one row per (patient, cycle, drug),
\* every row carrying the cycle's cycle_number and cycle_date next to the
\* stage, outcome and gene values the table includes.
C20_Original ==
    TablesMade =>
        /\ OneRowPerCycle(tables.tcga, CarriesGenes)
        /\ OneRowPerCycle(tables.ehr, CarriesStage)
        /\ OneRowPerCycle(tables.claims, CarriesCycle)
        /\ OneRowPerDrug(tables.rwe, CarriesAll)

\* C20, amended: the TCGA, EHR and claims tables have one row per
\* (patient, cycle) and the RWE table one row per (patient, cycle, drug);
\* the rows of the TCGA, EHR and RWE tables carry the cycle's cycle_number
\* and cycle_date next to the stage, outcome and gene values the table
\* includes, and a row of the claims table carries the cycle's date as
\* date_of_service and no cycle number.
C20_RowsPerCycle ==
    TablesMade =>
        /\ OneRowPerCycle(tables.tcga, CarriesGenes)
        /\ OneRowPerCycle(tables.ehr, CarriesStage)
        /\ OneRowPerCycle(tables.claims, CarriesService)
        /\ OneRowPerDrug(tables.rwe, CarriesAll)

\* Three patients with 2, 0 and 3 cycles: 5 rows per cycle and 12 per drug.
C20_Witness ==
    /\ TablesMade
    /\ Len(patients_data) = 3
    /\ Len(patients_data[3].cycles) = 3
    /\ Len(tables.tcga) = 5
    /\ Len(tables.ehr) = 5
    /\ Len(tables.claims) = 5
    /\ Len(tables.rwe) = 12
    /\ tables.claims[5].claim_id = 1004
    /\ tables.claims[5].date_of_service = <<2024, 2, 5>>

\* The elements of a list.
Elements(xs) == {xs[i] : i \in DOMAIN xs}

\* The row is of a year within the selected dates, both ends included, of a
\* selected cancer type and of a selected stage.
Selected(row) ==
    /\ ~DateLess(strftime(row.year), selection.date_range[1])
    /\ ~DateLess(selection.date_range[2], strftime(row.year))
    /\ row.cancer_type \in Elements(selection.cancer_types)
    /\ row.cancer_stage \in Elements(selection.cancer_stages)

\* The places of the selected rows in the table.
Kept == {i \in DOMAIN df_epi : Selected(df_epi[i])}

\* A call of the filter leaves the table it is given as it was.
FilterKeepsInput ==
    /\ pc = "epi_made" => df_epi' = df_epi
    /\ pc = "epi_filtered" => (df_epi' = df_epi /\ filtered' = filtered)

\* C21: filter_epi_data returns exactly the rows of the table whose year is
\* within the selected dates, both ends included, whose cancer_type is among
\* the selected types and whose cancer_stage is among the selected stages,
\* in the order of the table; the table it is given stays as it was; and
\* the filter applied to its own result with the same selection returns
\* that result.
C21_FilterExact ==
    /\ [](pc \in {"epi_filtered", "epi_refiltered"} =>
            /\ Len(filtered) = Cardinality(Kept)
            /\ \A i \in Kept : filtered[Cardinality({k \in Kept : k <= i})] = df_epi[i])
    /\ [](pc = "epi_refiltered" => refiltered = filtered)
    /\ [][FilterKeepsInput]_vars

\* The slider on 2021-01-01 at both ends and the stages 4 and 1: some rows
\* of 2021 pass, none of 2020, and the second pass keeps them all.
C21_Witness ==
    /\ pc = "epi_refiltered"
    /\ Len(df_epi) = 24
    /\ selection.date_range = << <<2021, 1, 1>>, <<2021, 1, 1>> >>
    /\ selection.cancer_stages = << 4, 1 >>
    /\ selection.cancer_types = CANCER_TYPES
    /\ Len(filtered) > 1
    /\ Len(filtered) < 12
    /\ \A i \in DOMAIN filtered : strftime(filtered[i].year) = <<2021, 1, 1>>
    /\ refiltered = filtered

\* The cancer types a call can name: those with ranges of their own and one
\* without.
AnyCancerTypes == Elements(CANCER_TYPES) \cup {"Sarcoma"}

\* C22: no call raises; every row has mortality_count <= incidence_count <=
\* prevalence_count <= 5 * incidence_count and a cancer_stage in 1..4; and
\* for every cancer type, also one without ranges of its own, and every
\* incidence count its range allows, min(incidence_count, base_mort_max) >=
\* base_mort_min.
C22_CountsOrdered ==
    /\ pc # "raised"
    /\ \A i \in DOMAIN df_epi :
          /\ df_epi[i].mortality_count <= df_epi[i].incidence_count
          /\ df_epi[i].incidence_count <= df_epi[i].prevalence_count
          /\ df_epi[i].prevalence_count <= 5 * df_epi[i].incidence_count
          /\ df_epi[i].cancer_stage \in 1..4
    /\ pc = "epi_made" =>
          \A cancer \in AnyCancerTypes :
             \A incidence \in base_ranges(cancer).incidence[1]..base_ranges(cancer).incidence[2] :
                min(incidence, base_ranges(cancer).mort[2]) >= base_ranges(cancer).mort[1]

\* A cancer type without ranges of its own, the incidence drawn at the
\* bottom of the fallback range and the two other counts at the ends that
\* the incidence sets them: the three counts are equal.
C22_Witness ==
    /\ pc = "epi_made"
    /\ \E i \in DOMAIN df_epi :
          /\ df_epi[i].cancer_type = "Sarcoma"
          /\ df_epi[i].incidence_count = 500
          /\ df_epi[i].mortality_count = 500
          /\ df_epi[i].prevalence_count = 500
          /\ df_epi[i].cancer_stage = 4

====
